---- MODULE Spec2Model ----
(***************************************************************************)
(* ResolveDependents of internal/graph/graph.go as a state machine: the    *)
(* index build over the input objects, the owner-reference pass, the       *)
(* extractor pass (dispatch, extraction, updateRelationships) and the      *)
(* breadth-first traversal from rootUID.  A Node is named by the position  *)
(* of its object in the input (the address &node of the loop iteration     *)
(* that built it); Nil is the nil pointer.  A Go map is a function whose   *)
(* DOMAIN is the key set; ranging over a map visits its keys in any order. *)
(***************************************************************************)
EXTENDS Integers, Sequences, FiniteSets, TLC

VARIABLES objects, rootUID, pc, ix, nodes, globalMapByUID, globalMapByKey,
          todo, rmap, err, merged, nodeMap, uidQueue, uidSet,
          keyArgs, keyOut, relMap

\* The state of the stand-alone runs of the Key methods (arguments, results)
\* and of the RelationshipMap add operations (the map and the calls made).
aux == <<keyArgs, keyOut, relMap>>

\* The state of ResolveDependents.
resolve == <<objects, rootUID, pc, ix, nodes, globalMapByUID, globalMapByKey,
             todo, rmap, err, merged, nodeMap, uidQueue, uidSet>>

vars == <<resolve, aux>>

\* Largest number of objects in an input sequence.
MaxObjs == 3

Nil == 0

RelationshipControllerRef == "ControllerRef"

RelationshipOwnerRef == "OwnerRef"

\* ------------------------------------------------------------------ maps

EmptyMap == <<>>

MapPut(m, k, v) == [x \in (DOMAIN m) \cup {k} |-> IF x = k THEN v ELSE m[x]]

\* m[k] of a Go map with pointer values: nil when the key is absent.
MapGet(m, k) == IF k \in DOMAIN m THEN m[k] ELSE Nil

RECURSIVE Perms(_)
\* Every order in which a range loop can visit the key set S.
Perms(S) ==
    IF S = {} THEN {<<>>}
    ELSE UNION {{<<x>> \o p : p \in Perms(S \ {x})} : x \in S}

RECURSIVE RangeSeqs(_, _)
\* The call sequences of `for x := range S { body(x) }`: the keys in any
\* order, each contributing one of the call sequences body[x] of its body.
RangeSeqs(S, body) ==
    IF S = {} THEN {<<>>}
    ELSE UNION {{h \o t : h \in body[x], t \in RangeSeqs(S \ {x}, body)} : x \in S}

\* ------------------------------------------------------------ addressing

\* fmt.Sprintf("%s\\%s\\%s\\%s", ...): the components joined by a backslash.
ObjectReferenceKey(o) ==
    o.Group \o "\\" \o o.Kind \o "\\" \o o.Namespace \o "\\" \o o.Name

RECURSIVE SelectorString(_)
\* labels.Selector.String(): the requirements "key=value" joined by commas.
SelectorString(sel) ==
    IF Len(sel) = 0 THEN ""
    ELSE IF Len(sel) = 1 THEN sel[1].key \o "=" \o sel[1].value
    ELSE sel[1].key \o "=" \o sel[1].value \o "," \o SelectorString(Tail(sel))

ObjectLabelSelectorKey(o) ==
    o.Group \o "\\" \o o.Kind \o "\\" \o o.Namespace \o "\\" \o SelectorString(o.Selector)

\* labels.Selector.Matches: every requirement is met by the label set.
SelectorMatches(sel, labelSet) ==
    \A i \in 1..Len(sel) :
        sel[i].key \in DOMAIN labelSet /\ labelSet[sel[i].key] = sel[i].value

\* ------------------------------------------------------- RelationshipMap

newRelationshipMap ==
    [DependenciesByLabelSelector |-> EmptyMap,
     DependenciesByRef           |-> EmptyMap,
     DependenciesByUID           |-> EmptyMap,
     DependentsByLabelSelector   |-> EmptyMap,
     DependentsByRef             |-> EmptyMap,
     DependentsByUID             |-> EmptyMap,
     ObjectLabelSelectors        |-> EmptyMap]

\* if _, ok := m[k]; !ok { m[k] = RelationshipSet{} }; m[k][r] = struct{}{}
AddToSet(m, k, r) == MapPut(m, k, (IF k \in DOMAIN m THEN m[k] ELSE {}) \cup {r})

AddDependencyByKey(m, k, r) ==
    [m EXCEPT !.DependenciesByRef = AddToSet(@, k, r)]

AddDependencyByLabelSelector(m, o, r) ==
    [m EXCEPT !.DependenciesByLabelSelector = AddToSet(@, ObjectLabelSelectorKey(o), r),
              !.ObjectLabelSelectors = MapPut(@, ObjectLabelSelectorKey(o), o)]

AddDependencyByUID(m, uid, r) ==
    [m EXCEPT !.DependenciesByUID = AddToSet(@, uid, r)]

AddDependentByKey(m, k, r) ==
    [m EXCEPT !.DependentsByRef = AddToSet(@, k, r)]

\* Mutant of AddDependentByLabelSelector: the selector itself is not
\* registered.
AddDependentByLabelSelectorUnregistered(m, o, r) ==
    [m EXCEPT !.DependentsByLabelSelector = AddToSet(@, ObjectLabelSelectorKey(o), r)]

AddDependentByLabelSelector(m, o, r) ==
    [m EXCEPT !.DependentsByLabelSelector = AddToSet(@, ObjectLabelSelectorKey(o), r),
              !.ObjectLabelSelectors = MapPut(@, ObjectLabelSelectorKey(o), o)]

AddDependentByUID(m, uid, r) ==
    [m EXCEPT !.DependentsByUID = AddToSet(@, uid, r)]

\* One add operation, named by the method an extractor calls.
ApplyAdd(m, a) ==
    CASE a.op = "AddDependencyByKey"           -> AddDependencyByKey(m, a.arg, a.r)
      [] a.op = "AddDependencyByLabelSelector" -> AddDependencyByLabelSelector(m, a.arg, a.r)
      [] a.op = "AddDependencyByUID"           -> AddDependencyByUID(m, a.arg, a.r)
      [] a.op = "AddDependentByKey"            -> AddDependentByKey(m, a.arg, a.r)
      [] a.op = "AddDependentByLabelSelector"  -> AddDependentByLabelSelector(m, a.arg, a.r)
      [] a.op = "AddDependentByUID"            -> AddDependentByUID(m, a.arg, a.r)

RECURSIVE ApplyAdds(_, _)
ApplyAdds(m, adds) ==
    IF Len(adds) = 0 THEN m ELSE ApplyAdds(ApplyAdd(m, Head(adds)), Tail(adds))

\* ------------------------------------------------------------------ Node

\* Mutant of AddDependent: the Dependents map is made anew on every call.
AddDependentFresh(dependents, uid, r) == MapPut(EmptyMap, uid, {r})

\* Mutant of AddDependent: the label set of the entry is replaced, not
\* extended.
AddDependentOverwrites(dependents, uid, r) == MapPut(dependents, uid, {r})

\* n.Dependents after n.AddDependent(uid, r).
AddDependent(dependents, uid, r) == AddToSet(dependents, uid, r)

GetObjectReferenceKey(n) ==
    ObjectReferenceKey([Group |-> n.Group, Kind |-> n.Kind,
                        Name |-> n.Name, Namespace |-> n.Namespace])

\* The Node built from input object o.
NewNode(o) ==
    [UID |-> o.UID, Name |-> o.Name, Namespace |-> o.Namespace,
     Group |-> o.Group, Kind |-> o.Kind, Labels |-> o.Labels,
     OwnerReferences |-> o.OwnerReferences, Content |-> o.Content,
     Dependents |-> EmptyMap]

\* -------------------------------------------------------------- extractors

\* The extractor the switch of the extractor pass dispatches a node to, "none"
\* for the default case.
ExtractorFor(node) ==
    CASE node.Group = "" /\ node.Kind = "PersistentVolume" -> "getPersistentVolumeRelationships"
      [] node.Group = "" /\ node.Kind = "PersistentVolumeClaim" -> "getPersistentVolumeClaimRelationships"
      [] node.Group = "" /\ node.Kind = "Pod" -> "getPodRelationships"
      [] node.Group = "" /\ node.Kind = "Service" -> "getServiceRelationships"
      [] node.Group = "" /\ node.Kind = "ServiceAccount" -> "getServiceAccountRelationships"
      [] node.Group = "admissionregistration.k8s.io" /\ node.Kind = "MutatingWebhookConfiguration"
            -> "getMutatingWebhookConfigurationRelationships"
      [] node.Group = "admissionregistration.k8s.io" /\ node.Kind = "ValidatingWebhookConfiguration"
            -> "getValidatingWebhookConfigurationRelationships"
      [] (node.Group = "events.k8s.io" \/ node.Group = "") /\ node.Kind = "Event" -> "getEventRelationships"
      [] (node.Group = "networking.k8s.io" \/ node.Group = "extensions") /\ node.Kind = "Ingress"
            -> "getIngressRelationships"
      [] node.Group = "networking.k8s.io" /\ node.Kind = "IngressClass" -> "getIngressClassRelationships"
      [] node.Group = "rbac.authorization.k8s.io" /\ node.Kind = "ClusterRole" -> "getClusterRoleRelationships"
      [] node.Group = "rbac.authorization.k8s.io" /\ node.Kind = "ClusterRoleBinding"
            -> "getClusterRoleBindingRelationships"
      [] node.Group = "rbac.authorization.k8s.io" /\ node.Kind = "RoleBinding" -> "getRoleBindingRelationships"
      [] OTHER -> "none"

\* A per-kind extractor: a pure function of the node's content that returns a
\* RelationshipMap filled by add operations, or a failure.  rmap is a pointer:
\* <<>> is nil, <<m>> points to m.
Extract(node) ==
    IF node.Content.fail
    THEN [rmap |-> <<>>, err |-> "error"]
    ELSE [rmap |-> <<ApplyAdds(newRelationshipMap, node.Content.adds)>>, err |-> "nil"]

\* Mutant of Dispatch: the default case falls through to updateRelationships
\* when an earlier iteration left a map in rmap.
DispatchDefaultFallsThrough(node, oldRmap, oldErr) ==
    IF ExtractorFor(node) = "none"
    THEN [rmap |-> oldRmap, err |-> oldErr, continue |-> oldRmap = <<>>]
    ELSE [rmap |-> Extract(node).rmap, err |-> Extract(node).err,
          continue |-> Extract(node).err # "nil"]

\* One iteration's switch: the values left in rmap and err, and whether the
\* iteration continues without reaching updateRelationships.
Dispatch(node, oldRmap, oldErr) ==
    IF ExtractorFor(node) = "none"
    THEN [rmap |-> oldRmap, err |-> oldErr, continue |-> TRUE]
    ELSE [rmap |-> Extract(node).rmap, err |-> Extract(node).err,
          continue |-> Extract(node).err # "nil"]

\* ------------------------------------------------------------ index build

HostnameLabel == "kubernetes.io/hostname"

\* globalMapByUID after the loop iteration that builds node id from object o.
IndexByUID(byUID, o, id) ==
    LET m1 == MapPut(byUID, o.UID, id)
        isNode == o.Group = "" /\ o.Kind = "Node"
        m2 == IF isNode THEN MapPut(m1, o.Name, id) ELSE m1
    IN  IF isNode /\ HostnameLabel \in DOMAIN o.Labels
        THEN MapPut(m2, o.Labels[HostnameLabel], id)
        ELSE m2

IndexByKey(byKey, o, id) == MapPut(byKey, GetObjectReferenceKey(NewNode(o)), id)

\* ------------------------------------------------------ relationship edges

\* A call target.AddDependent(uid, r).
Call(target, uid, r) == [node |-> target, uid |-> uid, r |-> r]

RECURSIVE ApplyCalls(_, _)
\* The Nodes after the AddDependent calls of a sequence, in order.
ApplyCalls(ns, calls) ==
    IF Len(calls) = 0 THEN ns
    ELSE LET c == Head(calls)
         IN  ApplyCalls([ns EXCEPT ![c.node].Dependents = AddDependent(@, c.uid, c.r)],
                        Tail(calls))

\* for r := range rset { target.AddDependent(uid, r) }
AddCalls(target, uid, rset) == RangeSeqs(rset, [r \in rset |-> {<<Call(target, uid, r)>>}])

\* Mutant of resolveSelectorToNodes: the namespace of the candidates is not
\* compared.
resolveSelectorAnyNamespace(o) ==
    LET hits == {k \in DOMAIN globalMapByUID :
                    LET n == nodes[globalMapByUID[k]]
                    IN  /\ n.Group = o.Group /\ n.Kind = o.Kind
                        /\ SelectorMatches(o.Selector, n.Labels)}
    IN  {[i \in 1..Len(p) |-> globalMapByUID[p[i]]] : p \in Perms(hits)}

\* The slices resolveSelectorToNodes can return: the matching entries of the
\* by-identifier index in the order the scan met them.
resolveSelectorToNodes(o) ==
    LET hits == {k \in DOMAIN globalMapByUID :
                    LET n == nodes[globalMapByUID[k]]
                    IN  /\ n.Group = o.Group /\ n.Kind = o.Kind /\ n.Namespace = o.Namespace
                        /\ SelectorMatches(o.Selector, n.Labels)}
    IN  {[i \in 1..Len(p) |-> globalMapByUID[p[i]]] : p \in Perms(hits)}

RECURSIVE DependencyCalls(_, _, _)
\* for _, n := range list { for r := range rset { n.AddDependent(uid, r) } }
DependencyCalls(list, uid, rset) ==
    IF Len(list) = 0 THEN {<<>>}
    ELSE {h \o t : h \in AddCalls(Head(list), uid, rset),
                   t \in DependencyCalls(Tail(list), uid, rset)}

RECURSIVE DependentCalls(_, _, _)
\* for _, n := range list { for r := range rset { node.AddDependent(n.UID, r) } }
DependentCalls(list, node, rset) ==
    IF Len(list) = 0 THEN {<<>>}
    ELSE {h \o t : h \in AddCalls(node, nodes[Head(list)].UID, rset),
                   t \in DependentCalls(Tail(list), node, rset)}

\* for k, rset := range rmap.DependenciesByRef { ... n.AddDependent(node.UID, r) }
DependenciesByRefCalls(node, rm) ==
    RangeSeqs(DOMAIN rm.DependenciesByRef,
        [k \in DOMAIN rm.DependenciesByRef |->
            IF k \in DOMAIN globalMapByKey
            THEN AddCalls(globalMapByKey[k], nodes[node].UID, rm.DependenciesByRef[k])
            ELSE {<<>>}])

\* Mutant of DependentsByRefCalls: the edge is recorded on the referenced Node,
\* as in the dependency loop.
DependentsByRefCallsReversed(node, rm) ==
    RangeSeqs(DOMAIN rm.DependentsByRef,
        [k \in DOMAIN rm.DependentsByRef |->
            IF k \in DOMAIN globalMapByKey
            THEN AddCalls(globalMapByKey[k], nodes[node].UID, rm.DependentsByRef[k])
            ELSE {<<>>}])

\* for k, rset := range rmap.DependentsByRef { ... node.AddDependent(n.UID, r) }
DependentsByRefCalls(node, rm) ==
    RangeSeqs(DOMAIN rm.DependentsByRef,
        [k \in DOMAIN rm.DependentsByRef |->
            IF k \in DOMAIN globalMapByKey
            THEN AddCalls(node, nodes[globalMapByKey[k]].UID, rm.DependentsByRef[k])
            ELSE {<<>>}])

\* for k, rset := range rmap.DependenciesByLabelSelector { ... }
DependenciesByLabelSelectorCalls(node, rm) ==
    RangeSeqs(DOMAIN rm.DependenciesByLabelSelector,
        [k \in DOMAIN rm.DependenciesByLabelSelector |->
            IF k \in DOMAIN rm.ObjectLabelSelectors
            THEN UNION {DependencyCalls(list, nodes[node].UID, rm.DependenciesByLabelSelector[k]) :
                            list \in resolveSelectorToNodes(rm.ObjectLabelSelectors[k])}
            ELSE {<<>>}])

\* for k, rset := range rmap.DependentsByLabelSelector { ... }
DependentsByLabelSelectorCalls(node, rm) ==
    RangeSeqs(DOMAIN rm.DependentsByLabelSelector,
        [k \in DOMAIN rm.DependentsByLabelSelector |->
            IF k \in DOMAIN rm.ObjectLabelSelectors
            THEN UNION {DependentCalls(list, node, rm.DependentsByLabelSelector[k]) :
                            list \in resolveSelectorToNodes(rm.ObjectLabelSelectors[k])}
            ELSE {<<>>}])

\* for uid, rset := range rmap.DependenciesByUID { ... n.AddDependent(node.UID, r) }
DependenciesByUIDCalls(node, rm) ==
    RangeSeqs(DOMAIN rm.DependenciesByUID,
        [u \in DOMAIN rm.DependenciesByUID |->
            IF u \in DOMAIN globalMapByUID
            THEN AddCalls(globalMapByUID[u], nodes[node].UID, rm.DependenciesByUID[u])
            ELSE {<<>>}])

\* Mutant of DependentsByUIDCalls: the edge is recorded under the declared
\* identifier, not under the UID of the Node it resolves to.
DependentsByUIDCallsDeclaredKey(node, rm) ==
    RangeSeqs(DOMAIN rm.DependentsByUID,
        [u \in DOMAIN rm.DependentsByUID |->
            IF u \in DOMAIN globalMapByUID
            THEN AddCalls(node, u, rm.DependentsByUID[u])
            ELSE {<<>>}])

\* Mutant of DependentsByUIDCalls: the declared identifier is stored without
\* looking it up in the index.
DependentsByUIDCallsUnresolved(node, rm) ==
    RangeSeqs(DOMAIN rm.DependentsByUID,
        [u \in DOMAIN rm.DependentsByUID |-> AddCalls(node, u, rm.DependentsByUID[u])])

\* for uid, rset := range rmap.DependentsByUID { ... node.AddDependent(n.UID, r) }
DependentsByUIDCalls(node, rm) ==
    RangeSeqs(DOMAIN rm.DependentsByUID,
        [u \in DOMAIN rm.DependentsByUID |->
            IF u \in DOMAIN globalMapByUID
            THEN AddCalls(node, nodes[globalMapByUID[u]].UID, rm.DependentsByUID[u])
            ELSE {<<>>}])

\* The AddDependent call sequences updateRelationships(node, rm) can make: its
\* six range loops in the order of the code.
updateRelationships(node, rm) ==
    {s1 \o s2 \o s3 \o s4 \o s5 \o s6 :
        s1 \in DependenciesByRefCalls(node, rm),
        s2 \in DependentsByRefCalls(node, rm),
        s3 \in DependenciesByLabelSelectorCalls(node, rm),
        s4 \in DependentsByLabelSelectorCalls(node, rm),
        s5 \in DependenciesByUIDCalls(node, rm),
        s6 \in DependentsByUIDCalls(node, rm)}

RECURSIVE OwnerCallsNonNilController(_, _)
\* Mutant of OwnerCalls: the controller flag is tested for presence only
\* (ref.Controller != nil), not for its value.
OwnerCallsNonNilController(node, refs) ==
    IF Len(refs) = 0 THEN <<>>
    ELSE LET ref == Head(refs)
             n == MapGet(globalMapByUID, ref.UID)
         IN  (IF n = Nil THEN <<>>
              ELSE (IF ref.Controller # "nil"
                    THEN <<Call(n, nodes[node].UID, RelationshipControllerRef)>>
                    ELSE <<>>)
                   \o <<Call(n, nodes[node].UID, RelationshipOwnerRef)>>)
             \o OwnerCallsNonNilController(node, Tail(refs))

RECURSIVE OwnerCalls(_, _)
\* The AddDependent calls of the owner-reference loop body for one node: its
\* owner references in list order.
OwnerCalls(node, refs) ==
    IF Len(refs) = 0 THEN <<>>
    ELSE LET ref == Head(refs)
             n == MapGet(globalMapByUID, ref.UID)
         IN  (IF n = Nil THEN <<>>
              ELSE (IF ref.Controller = "true"
                    THEN <<Call(n, nodes[node].UID, RelationshipControllerRef)>>
                    ELSE <<>>)
                   \o <<Call(n, nodes[node].UID, RelationshipOwnerRef)>>)
             \o OwnerCalls(node, Tail(refs))

\* ----------------------------------------------------------------- inputs

\* Largest number of candidate objects in an input of the selector scenarios.
MaxSelTargets == 3

NoLabels == <<>>

AppLabel(v) == [app |-> v]

NoContent == [fail |-> FALSE, adds |-> <<>>]

OwnerReference(uid, controller) == [UID |-> uid, Controller |-> controller]

Object(uid, group, kind, namespace, name, labelSet, owners, content) ==
    [UID |-> uid, Group |-> group, Kind |-> kind, Namespace |-> namespace,
     Name |-> name, Labels |-> labelSet, OwnerReferences |-> owners,
     Content |-> content]

Add(op, arg, r) == [op |-> op, arg |-> arg, r |-> r]

KeyOf(group, kind, namespace, name) ==
    ObjectReferenceKey([Group |-> group, Kind |-> kind, Namespace |-> namespace, Name |-> name])

SelReplicaSets ==
    [Group |-> "apps", Kind |-> "ReplicaSet", Namespace |-> "ns",
     Selector |-> <<[key |-> "app", value |-> "x"]>>]

SelPods ==
    [Group |-> "", Kind |-> "Pod", Namespace |-> "ns",
     Selector |-> <<[key |-> "app", value |-> "x"]>>]

SelPodsY ==
    [Group |-> "", Kind |-> "Pod", Namespace |-> "ns",
     Selector |-> <<[key |-> "app", value |-> "y"]>>]

\* Pods whose extractors declare by reference key, by identifier and by label
\* selector, in both directions, with addresses that resolve to other objects,
\* to the declaring Pod itself or to nothing, and a Pod whose extractor fails.
PodByKey ==
    Object("c", "", "Pod", "ns", "k", AppLabel("x"),
           <<OwnerReference("b", "true"), OwnerReference("z", "false")>>,
           [fail |-> FALSE,
            adds |-> <<Add("AddDependencyByKey", KeyOf("", "Pod", "ns", "q"), "L"),
                       Add("AddDependentByKey", KeyOf("", "Pod", "ns", "p"), "M"),
                       Add("AddDependentByKey", KeyOf("", "Pod", "ns", "k"), "L"),
                       Add("AddDependencyByKey", KeyOf("", "Secret", "ns", "none"), "L")>>])

PodByUID ==
    Object("b", "", "Pod", "ns", "p", AppLabel("y"), <<>>,
           [fail |-> FALSE,
            adds |-> <<Add("AddDependencyByUID", "a", "L"),
                       Add("AddDependentByUID", "c", "M"),
                       Add("AddDependentByUID", "z", "L")>>])

PodBySelector ==
    Object("a", "", "Pod", "ns", "q", AppLabel("x"), <<>>,
           [fail |-> FALSE,
            adds |-> <<Add("AddDependencyByLabelSelector", SelPods, "L"),
                       Add("AddDependentByLabelSelector", SelReplicaSets, "M"),
                       Add("AddDependentByLabelSelector", SelReplicaSets, "L"),
                       Add("AddDependentByLabelSelector", SelPodsY, "L")>>])

PodFailing ==
    Object("c", "", "Pod", "ns", "f", AppLabel("x"), <<OwnerReference("a", "false")>>,
           [fail |-> TRUE, adds |-> <<>>])

\* The objects an input of the general scenarios is made of.
ObjectSet ==
    { Object("a", "apps", "Deployment", "ns", "d", NoLabels, <<>>, NoContent),
      Object("b", "apps", "ReplicaSet", "ns", "r", AppLabel("x"),
             <<OwnerReference("a", "true")>>, NoContent),
      Object("a", "apps", "ReplicaSet", "ns", "r", NoLabels,
             <<OwnerReference("b", "false"), OwnerReference("b", "nil")>>, NoContent),
      Object("c", "apps", "ReplicaSet", "ns", "s", AppLabel("x"),
             <<OwnerReference("c", "nil"), OwnerReference("z", "true")>>, NoContent),
      Object("c", "", "Node", "", "a", [x \in {HostnameLabel} |-> "b"],
             <<OwnerReference("b", "true")>>, NoContent),
      Object("d", "", "Node", "", "z", NoLabels, <<>>, NoContent),
      PodByKey, PodByUID, PodBySelector, PodFailing }

\* The candidate objects of the selector scenarios: an input is PodBySelector
\* followed by candidates that match its selectors or miss them by label,
\* namespace, group or kind.
SelObjectSet ==
    { Object("b", "apps", "ReplicaSet", "ns", "r", AppLabel("x"), <<>>, NoContent),
      Object("c", "apps", "ReplicaSet", "ns", "s", AppLabel("x"), <<>>, NoContent),
      Object("d", "apps", "ReplicaSet", "ns", "t", AppLabel("y"), <<>>, NoContent),
      Object("d", "apps", "ReplicaSet", "other", "r", AppLabel("x"), <<>>, NoContent),
      Object("d", "extensions", "ReplicaSet", "ns", "r", AppLabel("x"),
             <<OwnerReference("c", "true")>>, NoContent),
      Object("d", "apps", "Deployment", "ns", "d", AppLabel("x"), <<>>, NoContent) }

\* The values of the argument rootUID: UIDs of objects, names and hostnames of
\* Node objects, and an identifier no object carries.
RootUIDs == {"a", "b", "c", "d", "z"}

SeqsUpTo(S, n) == UNION {[1..k -> S] : k \in 0..n}

\* ------------------------------------------------------------ the machine

Init ==
    /\ objects \in SeqsUpTo(ObjectSet, MaxObjs)
                    \cup {<<PodBySelector>> \o t : t \in [1..MaxSelTargets -> SelObjectSet]}
    /\ rootUID = ""
    /\ pc = "build"
    /\ ix = 0
    /\ nodes = <<>>
    /\ globalMapByUID = EmptyMap
    /\ globalMapByKey = EmptyMap
    /\ todo = {}
    /\ rmap = <<>>
    /\ err = "nil"
    /\ merged = {}
    /\ nodeMap = EmptyMap
    /\ uidQueue = <<>>
    /\ uidSet = {}
    /\ keyArgs = <<>>
    /\ keyOut = <<>>
    /\ relMap = <<>>

\* One iteration of the index-build loop.
BuildStep ==
    /\ pc = "build"
    /\ ix < Len(objects)
    /\ LET o == objects[ix + 1]
       IN  /\ nodes' = Append(nodes, NewNode(o))
           /\ globalMapByUID' = IndexByUID(globalMapByUID, o, ix + 1)
           /\ globalMapByKey' = IndexByKey(globalMapByKey, o, ix + 1)
    /\ ix' = ix + 1
    /\ UNCHANGED aux
    /\ UNCHANGED <<objects, rootUID, pc, todo, rmap, err, merged, nodeMap, uidQueue, uidSet>>

\* The index-build loop ends; the owner-reference pass ranges over the index.
EndBuild ==
    /\ pc = "build"
    /\ ix = Len(objects)
    /\ pc' = "owner"
    /\ todo' = DOMAIN globalMapByUID
    /\ UNCHANGED aux
    /\ UNCHANGED <<objects, rootUID, ix, nodes, globalMapByUID, globalMapByKey,
                   rmap, err, merged, nodeMap, uidQueue, uidSet>>

\* One iteration of the owner-reference pass, for any key not yet visited.
OwnerStep ==
    /\ pc = "owner"
    /\ \E k \in todo :
        LET node == globalMapByUID[k]
        IN  /\ nodes' = ApplyCalls(nodes, OwnerCalls(node, nodes[node].OwnerReferences))
            /\ todo' = todo \ {k}
    /\ UNCHANGED aux
    /\ UNCHANGED <<objects, rootUID, pc, ix, globalMapByUID, globalMapByKey,
                   rmap, err, merged, nodeMap, uidQueue, uidSet>>

EndOwner ==
    /\ pc = "owner"
    /\ todo = {}
    /\ pc' = "extract"
    /\ todo' = DOMAIN globalMapByUID
    /\ UNCHANGED aux
    /\ UNCHANGED <<objects, rootUID, ix, nodes, globalMapByUID, globalMapByKey,
                   rmap, err, merged, nodeMap, uidQueue, uidSet>>

\* Mutant of ExtractStep: an extractor error ends the pass (break) instead of
\* ending the iteration (continue).
ExtractStepBreaksOnError ==
    /\ pc = "extract"
    /\ \E k \in todo :
        LET node == globalMapByUID[k]
            d == Dispatch(nodes[node], rmap, err)
        IN  /\ rmap' = d.rmap
            /\ err' = d.err
            /\ todo' = IF ExtractorFor(nodes[node]) # "none" /\ d.err # "nil"
                       THEN {}
                       ELSE todo \ {k}
            /\ IF d.continue
               THEN UNCHANGED <<nodes, merged>>
               ELSE /\ \E calls \in updateRelationships(node, d.rmap[1]) :
                            nodes' = ApplyCalls(nodes, calls)
                    /\ merged' = merged \cup {<<node, d.rmap[1]>>}
    /\ UNCHANGED aux
    /\ UNCHANGED <<objects, rootUID, pc, ix, globalMapByUID, globalMapByKey,
                   nodeMap, uidQueue, uidSet>>

\* One iteration of the extractor pass, for any key not yet visited: the
\* switch, then updateRelationships unless the iteration continued.
ExtractStep ==
    /\ pc = "extract"
    /\ \E k \in todo :
        LET node == globalMapByUID[k]
            d == Dispatch(nodes[node], rmap, err)
        IN  /\ rmap' = d.rmap
            /\ err' = d.err
            /\ todo' = todo \ {k}
            /\ IF d.continue
               THEN UNCHANGED <<nodes, merged>>
               ELSE /\ \E calls \in updateRelationships(node, d.rmap[1]) :
                            nodes' = ApplyCalls(nodes, calls)
                    /\ merged' = merged \cup {<<node, d.rmap[1]>>}
    /\ UNCHANGED aux
    /\ UNCHANGED <<objects, rootUID, pc, ix, globalMapByUID, globalMapByKey,
                   nodeMap, uidQueue, uidSet>>

\* The extractor pass ends; the submap and the queue are set up from rootUID.
\* The argument rootUID is first read here, and the passes before it run the
\* same for every root: its value is drawn at this step.
EndExtract ==
    /\ pc = "extract"
    /\ todo = {}
    /\ pc' = "traverse"
    /\ \E root \in RootUIDs :
        /\ rootUID' = root
        /\ IF MapGet(globalMapByUID, root) # Nil
           THEN /\ nodeMap' = MapPut(EmptyMap, root, globalMapByUID[root])
                /\ uidQueue' = <<root>>
           ELSE /\ nodeMap' = EmptyMap
                /\ uidQueue' = <<>>
    /\ uidSet' = {}
    /\ UNCHANGED aux
    /\ UNCHANGED <<objects, ix, nodes, globalMapByUID, globalMapByKey,
                   todo, rmap, err, merged>>

\* Mutant of PutAll: only the first dependent of the slice is copied.
PutAllFirstOnly(m, uids) ==
    IF Len(uids) = 0 THEN m
    ELSE MapPut(m, Head(uids), MapGet(globalMapByUID, Head(uids)))

RECURSIVE PutAll(_, _)
\* nodeMap after nodeMap[dUID] = globalMapByUID[dUID] for each dUID of a slice.
PutAll(m, uids) ==
    IF Len(uids) = 0 THEN m
    ELSE PutAll(MapPut(m, Head(uids), MapGet(globalMapByUID, Head(uids))), Tail(uids))

\* Mutant of TraversePop: the visited head is left on the queue.
TraversePopKeepsHead ==
    /\ pc = "traverse"
    /\ Len(uidQueue) # 0
    /\ Head(uidQueue) \in uidSet
    /\ uidQueue' = uidQueue
    /\ UNCHANGED aux
    /\ UNCHANGED <<objects, rootUID, pc, ix, nodes, globalMapByUID, globalMapByKey,
                   todo, rmap, err, merged, nodeMap, uidSet>>

\* A traversal iteration whose queue head was visited before: it is dropped.
TraversePop ==
    /\ pc = "traverse"
    /\ Len(uidQueue) # 0
    /\ Head(uidQueue) \in uidSet
    /\ uidQueue' = Tail(uidQueue)
    /\ UNCHANGED aux
    /\ UNCHANGED <<objects, rootUID, pc, ix, nodes, globalMapByUID, globalMapByKey,
                   todo, rmap, err, merged, nodeMap, uidSet>>

\* Mutant of TraverseVisit: the edges of the visited Node are taken out of its
\* Dependents as they are enqueued.
TraverseVisitConsumesEdges ==
    /\ pc = "traverse"
    /\ Len(uidQueue) # 0
    /\ Head(uidQueue) \notin uidSet
    /\ uidSet' = uidSet \cup {Head(uidQueue)}
    /\ LET node == MapGet(nodeMap, Head(uidQueue))
       IN  IF node # Nil
           THEN /\ \E dependents \in Perms(DOMAIN nodes[node].Dependents) :
                    /\ nodeMap' = PutAll(nodeMap, dependents)
                    /\ uidQueue' = Tail(uidQueue) \o dependents
                /\ nodes' = [nodes EXCEPT ![node].Dependents = EmptyMap]
           ELSE UNCHANGED <<nodeMap, uidQueue, nodes>>
    /\ UNCHANGED aux
    /\ UNCHANGED <<objects, rootUID, pc, ix, globalMapByUID, globalMapByKey,
                   todo, rmap, err, merged>>

\* Mutant of TraverseVisit: the visited set is not consulted.
TraverseVisitUnguarded ==
    /\ pc = "traverse"
    /\ Len(uidQueue) # 0
    /\ uidSet' = uidSet \cup {Head(uidQueue)}
    /\ LET node == MapGet(nodeMap, Head(uidQueue))
       IN  IF node # Nil
           THEN \E dependents \in Perms(DOMAIN nodes[node].Dependents) :
                    /\ nodeMap' = PutAll(nodeMap, dependents)
                    /\ uidQueue' = Tail(uidQueue) \o dependents
           ELSE UNCHANGED <<nodeMap, uidQueue>>
    /\ UNCHANGED aux
    /\ UNCHANGED <<objects, rootUID, pc, ix, nodes, globalMapByUID, globalMapByKey,
                   todo, rmap, err, merged>>

\* A traversal iteration whose queue head is new: it is marked, and the
\* dependents of its Node, in any order, join the submap and the queue.
TraverseVisit ==
    /\ pc = "traverse"
    /\ Len(uidQueue) # 0
    /\ Head(uidQueue) \notin uidSet
    /\ uidSet' = uidSet \cup {Head(uidQueue)}
    /\ LET node == MapGet(nodeMap, Head(uidQueue))
       IN  IF node # Nil
           THEN \E dependents \in Perms(DOMAIN nodes[node].Dependents) :
                    /\ nodeMap' = PutAll(nodeMap, dependents)
                    /\ uidQueue' = Tail(uidQueue) \o dependents
           ELSE UNCHANGED <<nodeMap, uidQueue>>
    /\ UNCHANGED aux
    /\ UNCHANGED <<objects, rootUID, pc, ix, nodes, globalMapByUID, globalMapByKey,
                   todo, rmap, err, merged>>

\* The queue is empty: the loop breaks and nodeMap is returned.
Return ==
    /\ pc = "traverse"
    /\ Len(uidQueue) = 0
    /\ pc' = "done"
    /\ UNCHANGED aux
    /\ UNCHANGED <<objects, rootUID, ix, nodes, globalMapByUID, globalMapByKey,
                   todo, rmap, err, merged, nodeMap, uidQueue, uidSet>>

Next ==
    \/ BuildStep
    \/ EndBuild
    \/ OwnerStep
    \/ EndOwner
    \/ ExtractStep
    \/ EndExtract
    \/ TraversePop
    \/ TraverseVisit
    \/ Return

Spec == Init /\ [][Next]_vars

\* The objects of the inputs whose run is followed to its end under
\* fairness: those with owner references, which own each other, themselves,
\* or nothing that is present.
CycleObjectSet ==
    {o \in ObjectSet : Len(o.OwnerReferences) > 0}

CycleInit ==
    /\ Init
    /\ \A i \in DOMAIN objects : objects[i] \in CycleObjectSet

\* The code runs on one thread and never blocks: every enabled step is taken.
FairSpec == CycleInit /\ [][Next]_vars /\ WF_vars(Next)

\* ------------------------------------------------------------- properties

Done == pc = "done"

\* The (identifier, label) pairs of a Dependents map.
Pairs(dependents) == UNION {{<<u, r>> : r \in dependents[u]} : u \in DOMAIN dependents}

\* The Nodes the by-identifier index holds.
IndexNodes == {globalMapByUID[k] : k \in DOMAIN globalMapByUID}

\* The UIDs of the input objects.
InputUIDs == {objects[i].UID : i \in DOMAIN objects}

\* The identifiers one step along a Dependents edge from identifier u: the keys
\* of the Dependents of the Node the by-identifier index holds for u.
EdgesFrom(u) ==
    IF u \in DOMAIN globalMapByUID THEN DOMAIN nodes[globalMapByUID[u]].Dependents ELSE {}

RECURSIVE Closure(_, _)
\* The identifiers reachable from the set seen by zero or more steps; more is
\* the part of seen whose edges are still to be followed.
Closure(seen, more) ==
    IF more = {} THEN seen
    ELSE LET next == (UNION {EdgesFrom(u) : u \in more}) \ seen
         IN  Closure(seen \cup next, next)

Reachable(root) == Closure({root}, {root})

\* C1: when ResolveDependents returns for a rootUID that is a key of the
\* by-identifier index, the keys of the returned NodeMap are exactly the
\* identifiers reachable from rootUID along the recorded Dependents edges.
C1_ResultIsReachableSet ==
    (Done /\ rootUID \in DOMAIN globalMapByUID) => DOMAIN nodeMap = Reachable(rootUID)

\* A chain root -> dependent -> dependent was returned while another
\* identifier of the index, unreachable from the root, was left out.
C1_Witness ==
    /\ Done
    /\ rootUID \in DOMAIN globalMapByUID
    /\ Cardinality(DOMAIN nodeMap) = 3
    /\ \E u \in DOMAIN nodeMap : u # rootUID /\ u \notin EdgesFrom(rootUID)
    /\ \E u \in DOMAIN globalMapByUID : u \notin DOMAIN nodeMap

\* The input of two objects that own each other: A (UID a) and B (UID b).
MutualOwners ==
    /\ Len(objects) = 2
    /\ \E i, j \in DOMAIN objects :
        /\ objects[i].UID = "a" /\ objects[j].UID = "b"
        /\ \E r \in DOMAIN objects[i].OwnerReferences : objects[i].OwnerReferences[r].UID = "b"
        /\ \E r \in DOMAIN objects[j].OwnerReferences : objects[j].OwnerReferences[r].UID = "a"
        /\ ExtractorFor(objects[i]) = "none" /\ ExtractorFor(objects[j]) = "none"
        /\ objects[i].Kind # "Node" /\ objects[j].Kind # "Node"

\* C2: the traversal reaches the empty queue and returns for every input, with
\* cycles and self-loops among the Dependents edges; for two objects that own
\* each other, rooted at A, the result is exactly {A, B}.
C2_Terminates ==
    /\ <>Done
    /\ [](Done /\ MutualOwners /\ rootUID = "a" => DOMAIN nodeMap = {"a", "b"})

\* The traversal returned {A, B} for the two mutual owners, each visited once
\* although each is a dependent of the other.
C2_Witness ==
    /\ Done
    /\ MutualOwners
    /\ rootUID = "a"
    /\ "a" \in EdgesFrom("b") /\ "b" \in EdgesFrom("a")
    /\ DOMAIN nodeMap = {"a", "b"}
    /\ uidSet = {"a", "b"}

\* C3 as claimed: a rootUID that is the UID of no input object yields a NodeMap
\* with zero entries, whatever Node objects the input holds.
C3_AbsentRootEmpty ==
    (Done /\ rootUID \notin InputUIDs) => DOMAIN nodeMap = {}

\* C4 as claimed: every key of the returned NodeMap is the UID of an input
\* object.
C4_KeysAreInputUIDs ==
    Done => DOMAIN nodeMap \subseteq InputUIDs

\* The resolution pass is over: the graph is built.
AfterResolution == pc \in {"traverse", "done"}

\* The declarations a RelationshipMap holds: direction, addressing scheme,
\* address key and relationship label.
Declarations(rm) ==
    LET decls(dir, scheme, m) ==
            UNION {{[dir |-> dir, scheme |-> scheme, key |-> k, r |-> r] : r \in m[k]} :
                        k \in DOMAIN m}
    IN  decls("dependency", "ref", rm.DependenciesByRef)
            \cup decls("dependent", "ref", rm.DependentsByRef)
            \cup decls("dependency", "selector", rm.DependenciesByLabelSelector)
            \cup decls("dependent", "selector", rm.DependentsByLabelSelector)
            \cup decls("dependency", "uid", rm.DependenciesByUID)
            \cup decls("dependent", "uid", rm.DependentsByUID)

\* Node n is within the scope of selector o and carries the labels it asks for.
SelectorSelects(o, n) ==
    /\ nodes[n].Group = o.Group
    /\ nodes[n].Kind = o.Kind
    /\ nodes[n].Namespace = o.Namespace
    /\ \A i \in DOMAIN o.Selector :
        /\ o.Selector[i].key \in DOMAIN nodes[n].Labels
        /\ nodes[n].Labels[o.Selector[i].key] = o.Selector[i].value

\* The Nodes declaration d of rm resolves to in the global indices.
Targets(rm, d) ==
    CASE d.scheme = "ref" ->
            IF d.key \in DOMAIN globalMapByKey THEN {globalMapByKey[d.key]} ELSE {}
      [] d.scheme = "uid" ->
            IF d.key \in DOMAIN globalMapByUID THEN {globalMapByUID[d.key]} ELSE {}
      [] d.scheme = "selector" ->
            IF d.key \in DOMAIN rm.ObjectLabelSelectors
            THEN {n \in IndexNodes : SelectorSelects(rm.ObjectLabelSelectors[d.key], n)}
            ELSE {}

\* The pairs the dependency declarations of node x put on node y: x's UID
\* under the declared label, for every declaration resolving to y.
DependencyPairs(x, rm, y) ==
    {<<nodes[x].UID, d.r>> :
        d \in {d \in Declarations(rm) : d.dir = "dependency" /\ y \in Targets(rm, d)}}

\* The pairs the dependent declarations of node x put on x itself: the UID of
\* every Node a declaration resolves to, under the declared label.
DependentPairs(x, rm) ==
    UNION {{<<nodes[t].UID, d.r>> : t \in Targets(rm, d)} :
                d \in {d \in Declarations(rm) : d.dir = "dependent"}}

\* The pairs merging rm under node x puts on node y.
DeclaredPairs(x, rm, y) ==
    DependencyPairs(x, rm, y) \cup (IF y = x THEN DependentPairs(x, rm) ELSE {})

\* The pairs the extractor pass has put on node y so far.
ExtractorPairs(y) == UNION {DeclaredPairs(e[1], e[2], y) : e \in merged}

\* The labels of Dependents entry uid of node t, none when there is no entry.
LabelsOf(t, uid) ==
    IF uid \in DOMAIN nodes[t].Dependents THEN nodes[t].Dependents[uid] ELSE {}

MergeStep ==
    /\ pc = "extract"
    /\ todo' # todo
    /\ ExtractorFor(nodes[globalMapByUID[CHOOSE k \in todo \ todo' : TRUE]]) # "none"
    /\ err' = "nil"

MergedNode == globalMapByUID[CHOOSE k \in todo \ todo' : TRUE]

\* The pairs a step adds to the Dependents of node y.
NewPairs(y) == Pairs(nodes'[y].Dependents) \ Pairs(nodes[y].Dependents)

\* C6 as claimed, for an updateRelationships call of node X: every dependency
\* declaration resolving to T leaves X.UID under its label in T.Dependents and
\* every dependent declaration resolving to T leaves T.UID under its label in
\* X.Dependents; the dependency declarations add nothing to X.Dependents and
\* the dependent declarations add nothing to T.Dependents.
C6_DirectionsStrict ==
    [][MergeStep =>
        LET x == MergedNode
            rm == rmap'[1]
        IN  /\ \A y \in DOMAIN nodes :
                DeclaredPairs(x, rm, y) \subseteq Pairs(nodes'[y].Dependents)
            /\ NewPairs(x) \subseteq DependentPairs(x, rm)
            /\ \A d \in {d \in Declarations(rm) : d.dir = "dependent"} :
                \A t \in Targets(rm, d) : NewPairs(t) \subseteq DependencyPairs(x, rm, t)
      ]_vars

\* C6 amended: an updateRelationships call of node X adds to every Node T
\* exactly X.UID under the label of each dependency declaration resolving to
\* T, and to X exactly T.UID under the label of each dependent declaration
\* resolving to T; a declaration resolving to X itself adds to X.Dependents.
C6_Directions ==
    [][MergeStep =>
        \A y \in DOMAIN nodes :
            Pairs(nodes'[y].Dependents) =
                Pairs(nodes[y].Dependents) \cup DeclaredPairs(MergedNode, rmap'[1], y)
      ]_vars

\* Under each of the three addressing schemes a dependency declaration and a
\* dependent declaration were merged that resolve to a Node other than the
\* declaring one, and the edges they made are in place.
C6_Witness ==
    /\ pc = "extract"
    /\ \A scheme \in {"ref", "uid", "selector"} :
        \E e \in merged :
            /\ \E d \in Declarations(e[2]) :
                /\ d.scheme = scheme /\ d.dir = "dependency"
                /\ \E t \in Targets(e[2], d) :
                    t # e[1] /\ d.r \in LabelsOf(t, nodes[e[1]].UID)
            /\ \E d \in Declarations(e[2]) :
                /\ d.scheme = scheme /\ d.dir = "dependent"
                /\ \E t \in Targets(e[2], d) :
                    t # e[1] /\ d.r \in LabelsOf(e[1], nodes[t].UID)

\* The index Nodes whose extractor returns an error, and those whose
\* (group, kind) has no extractor.
FailedNodes ==
    {x \in IndexNodes : ExtractorFor(nodes[x]) # "none" /\ Extract(nodes[x]).err # "nil"}

UnmappedNodes == {x \in IndexNodes : ExtractorFor(nodes[x]) = "none"}

\* The pairs the owner references of the index Nodes put on node y.
OwnerPairs(y) ==
    UNION {UNION {{<<nodes[a].UID, r>> :
                        r \in {RelationshipOwnerRef} \cup
                              (IF nodes[a].OwnerReferences[e].Controller = "true"
                               THEN {RelationshipControllerRef} ELSE {})} :
                    e \in {e \in DOMAIN nodes[a].OwnerReferences :
                            MapGet(globalMapByUID, nodes[a].OwnerReferences[e].UID) = y}} :
                a \in IndexNodes}

\* What the failure policy leaves once the resolution pass is over.
FailurePolicyOutcome ==
    /\ \A e \in merged : e[1] \notin FailedNodes \cup UnmappedNodes
    /\ \A x \in IndexNodes \ (FailedNodes \cup UnmappedNodes) :
            <<x, Extract(nodes[x]).rmap[1]>> \in merged
    /\ \A y \in DOMAIN nodes :
            Pairs(nodes[y].Dependents) = OwnerPairs(y) \cup ExtractorPairs(y)

\* C7: an extractor error ends only the iteration of its node. The failing
\* iteration and the iteration of a node without extractor change no
\* Dependents and leave the pass running; once the pass is over every other
\* node with an extractor has had its declarations merged, no map was merged
\* under a failing or unmapped node, the edges are exactly the
\* owner-reference edges and the merged declarations, so every
\* owner-reference edge of a failing node is there; and with an error at hand
\* the pass can always go on, to its next iteration or to the traversal.
C7_FailurePolicy ==
    /\ [][(pc = "extract" /\ todo' # todo /\ ~MergeStep)
            => (nodes' = nodes /\ merged' = merged /\ pc' = "extract")]_vars
    /\ [](AfterResolution => FailurePolicyOutcome)
    /\ []((pc = "extract" /\ err # "nil") => ENABLED (ExtractStep \/ EndExtract))

\* Returned with an extractor that failed for a node which owner-reference
\* edges lead to, another node whose declarations made edges, and a node
\* without extractor that an owner-reference edge leads to.
C7_Witness ==
    /\ Done
    /\ \E x \in FailedNodes : \E t \in IndexNodes :
            RelationshipOwnerRef \in LabelsOf(t, nodes[x].UID)
    /\ \E e \in merged : \E y \in DOMAIN nodes :
            /\ DeclaredPairs(e[1], e[2], y) # {}
            /\ DeclaredPairs(e[1], e[2], y) \subseteq Pairs(nodes[y].Dependents)
    /\ \E x \in UnmappedNodes : \E t \in IndexNodes :
            RelationshipOwnerRef \in LabelsOf(t, nodes[x].UID)

\* C8: no dangling edge is stored. At every moment every key of every Node's
\* Dependents is the UID of a Node built from the input and resolves in the
\* by-identifier index; once the pass is over the edges are exactly those of the
\* owner references and declarations that resolve, so an unresolved one has
\* added nothing; and in the returned NodeMap every key of the Dependents of
\* every Node is a key of the NodeMap mapped to a Node.
C8_NoDanglingEdge ==
    /\ \A n \in DOMAIN nodes : \A u \in DOMAIN nodes[n].Dependents :
            /\ MapGet(globalMapByUID, u) # Nil
            /\ \E m \in DOMAIN nodes : nodes[m].UID = u
    /\ AfterResolution =>
            \A y \in DOMAIN nodes :
                Pairs(nodes[y].Dependents) \subseteq OwnerPairs(y) \cup ExtractorPairs(y)
    /\ Done =>
            \A k \in DOMAIN nodeMap :
                /\ nodeMap[k] # Nil
                /\ \A u \in DOMAIN nodes[nodeMap[k]].Dependents :
                        MapGet(nodeMap, u) # Nil

\* Returned Nodes made an owner reference and, under each addressing scheme, a
\* declaration that resolve to nothing, next to ones that made edges.
C8_Witness ==
    /\ Done
    /\ \E k \in DOMAIN nodeMap :
            /\ nodes[nodeMap[k]].Dependents # EmptyMap
            /\ \E e \in DOMAIN nodes[nodeMap[k]].OwnerReferences :
                    MapGet(globalMapByUID, nodes[nodeMap[k]].OwnerReferences[e].UID) = Nil
    /\ \A scheme \in {"ref", "uid", "selector"} :
        \E e \in merged :
            /\ \E k \in DOMAIN nodeMap : nodeMap[k] = e[1]
            /\ nodes[e[1]].Dependents # EmptyMap
            /\ \E d \in Declarations(e[2]) : d.scheme = scheme /\ Targets(e[2], d) = {}

\* The index holds node n under n's own UID.
Indexed(n) == MapGet(globalMapByUID, nodes[n].UID) = n

\* The pairs declaration d of rm, merged under node x, puts on node y.
PairsOfDeclaration(x, rm, d, y) ==
    IF d.dir = "dependency"
    THEN (IF y \in Targets(rm, d) THEN {<<nodes[x].UID, d.r>>} ELSE {})
    ELSE (IF y = x THEN {<<nodes[t].UID, d.r>> : t \in Targets(rm, d)} ELSE {})

\* The pairs on node y that come from an owner reference or from a merged
\* declaration other than declaration d of node x.
PairsOfOthers(x, d, y) ==
    OwnerPairs(y) \cup
    UNION {UNION {PairsOfDeclaration(e[1], e[2], d2, y) :
                    d2 \in {d2 \in Declarations(e[2]) : <<e[1], d2>> # <<x, d>>}} :
                e \in merged}

\* C9: resolving the dependents of an indexed object A whose extractor
\* declares a dependent-by-selector with label L returns every indexed object
\* the selector selects (same group, kind and namespace, labels matching),
\* with L in A.Dependents under its UID; an object the selector does not
\* select, whatever its labels, gets no L edge from this declaration and is
\* in the result only if the edges reach it.
C9_SelectorDependents ==
    Done =>
        \A a \in DOMAIN nodes :
            ( /\ Indexed(a)
              /\ rootUID = nodes[a].UID
              /\ a \notin FailedNodes \cup UnmappedNodes ) =>
                LET rm == Extract(nodes[a]).rmap[1]
                IN  \A d \in {d \in Declarations(rm) :
                                d.dir = "dependent" /\ d.scheme = "selector"} :
                        \A n \in {n \in DOMAIN nodes : Indexed(n)} :
                            IF SelectorSelects(rm.ObjectLabelSelectors[d.key], n)
                            THEN /\ MapGet(nodeMap, nodes[n].UID) = n
                                 /\ d.r \in LabelsOf(a, nodes[n].UID)
                            ELSE /\ <<nodes[n].UID, d.r>> \in Pairs(nodes[a].Dependents)
                                        => <<nodes[n].UID, d.r>> \in PairsOfOthers(a, d, a)
                                 /\ nodes[n].UID \in DOMAIN nodeMap
                                        => nodes[n].UID \in Reachable(rootUID)

\* Returned for a root A whose selector declaration selects two objects B and
\* C, with its label on both edges, while an object D carrying the selected
\* labels in another namespace is not in the result.
C9_Witness ==
    /\ Done
    /\ \E a, b, c, n \in {n \in DOMAIN nodes : Indexed(n)} :
        /\ rootUID = nodes[a].UID
        /\ a \notin FailedNodes \cup UnmappedNodes
        /\ nodes[b].UID # nodes[c].UID
        /\ \E d \in Declarations(Extract(nodes[a]).rmap[1]) :
            LET sel == Extract(nodes[a]).rmap[1].ObjectLabelSelectors
            IN  /\ d.dir = "dependent" /\ d.scheme = "selector"
                /\ SelectorSelects(sel[d.key], b) /\ SelectorSelects(sel[d.key], c)
                /\ d.r \in LabelsOf(a, nodes[b].UID) \cap LabelsOf(a, nodes[c].UID)
                /\ MapGet(nodeMap, nodes[b].UID) = b /\ MapGet(nodeMap, nodes[c].UID) = c
                /\ ~SelectorSelects(sel[d.key], n)
                /\ nodes[n].Namespace # sel[d.key].Namespace
                /\ SelectorMatches(sel[d.key].Selector, nodes[n].Labels)
                /\ nodes[n].UID \notin DOMAIN nodeMap

\* The identifiers the index build files object o under.
Identifiers(o) ==
    {o.UID} \cup
    (IF o.Group = "" /\ o.Kind = "Node"
     THEN {o.Name} \cup (IF HostnameLabel \in DOMAIN o.Labels
                         THEN {o.Labels[HostnameLabel]} ELSE {})
     ELSE {})

LastOf(S) == CHOOSE i \in S : \A j \in S : j <= i

\* The two indices as a function of the input: last write wins.
ExpectedByUID ==
    [u \in UNION {Identifiers(objects[i]) : i \in DOMAIN objects} |->
        LastOf({i \in DOMAIN objects : u \in Identifiers(objects[i])})]

ExpectedByKey ==
    [k \in {GetObjectReferenceKey(NewNode(objects[i])) : i \in DOMAIN objects} |->
        LastOf({i \in DOMAIN objects : GetObjectReferenceKey(NewNode(objects[i])) = k})]

\* The merges of the extractor pass as a function of the input: every indexed
\* node whose extractor succeeds, with the map its extractor returns.
ExpectedMerged ==
    {<<x, Extract(NewNode(objects[x])).rmap[1]>> :
        x \in {x \in {ExpectedByUID[u] : u \in DOMAIN ExpectedByUID} :
                /\ ExtractorFor(NewNode(objects[x])) # "none"
                /\ Extract(NewNode(objects[x])).err = "nil"}}

\* The Dependents of node y as a function of the indices and the merges.
ExpectedDependents(y) ==
    LET ps == OwnerPairs(y) \cup ExtractorPairs(y)
    IN  [u \in {p[1] : p \in ps} |-> {p[2] : p \in {q \in ps : q[1] = u}}]

RECURSIVE ExpectedClosure(_, _)
\* The identifiers reachable from seen along the expected Dependents.
ExpectedClosure(seen, more) ==
    IF more = {} THEN seen
    ELSE LET next == (UNION {DOMAIN ExpectedDependents(ExpectedByUID[u]) : u \in more}) \ seen
         IN  ExpectedClosure(seen \cup next, next)

\* C10: the returned NodeMap and the Dependents of every Node are one function
\* of the input sequence, the extractor results and rootUID, whatever order
\* the range loops took: the indices are the last-write-wins indices of the
\* input, the merged maps are those of the indexed nodes whose extractor
\* succeeds, every Dependents map is the union of the owner-reference and
\* declared edges, and the NodeMap maps the identifiers reachable from
\* rootUID to their index entries.
C10_Deterministic ==
    Done =>
        /\ globalMapByUID = ExpectedByUID
        /\ globalMapByKey = ExpectedByKey
        /\ merged = ExpectedMerged
        /\ \A y \in DOMAIN objects :
                nodes[y] = [NewNode(objects[y]) EXCEPT !.Dependents = ExpectedDependents(y)]
        /\ nodeMap = IF rootUID \in DOMAIN ExpectedByUID
                     THEN [u \in ExpectedClosure({rootUID}, {rootUID}) |-> ExpectedByUID[u]]
                     ELSE EmptyMap

\* Returned after passes that had orders to choose from: several merged maps,
\* three or more returned Nodes, and a returned Node with several dependents
\* one of which carries several labels.
C10_Witness ==
    /\ Done
    /\ Cardinality(merged) >= 2
    /\ Cardinality(DOMAIN nodeMap) >= 3
    /\ \E k \in DOMAIN nodeMap :
        /\ Cardinality(DOMAIN nodes[nodeMap[k]].Dependents) >= 2
        /\ \E u \in DOMAIN nodes[nodeMap[k]].Dependents :
                Cardinality(nodes[nodeMap[k]].Dependents[u]) >= 2

\* ------------------------------------------------- the Key methods alone

\* The component strings of the Key runs: empty, plain, and one that holds the
\* separator.
KeyStrings == {"", "a", "a\\a"}

\* The ObjectReference values of the Key runs.
ObjectReferences ==
    [Group : KeyStrings, Kind : KeyStrings, Namespace : KeyStrings, Name : KeyStrings]

\* The ObjectLabelSelector values of the Key runs.
ObjectLabelSelectors ==
    [Group : KeyStrings, Kind : KeyStrings, Namespace : KeyStrings,
     Selector : {<<>>, <<[key |-> "app", value |-> "x"]>>}]

\* ResolveDependents is not running.
ResolveIdle ==
    /\ objects = <<>>
    /\ rootUID = ""
    /\ pc = "idle"
    /\ ix = 0
    /\ nodes = <<>>
    /\ globalMapByUID = EmptyMap
    /\ globalMapByKey = EmptyMap
    /\ todo = {}
    /\ rmap = <<>>
    /\ err = "nil"
    /\ merged = {}
    /\ nodeMap = EmptyMap
    /\ uidQueue = <<>>
    /\ uidSet = {}

\* Two values of one of the two addressing types, no key computed yet.
KeyInit ==
    /\ ResolveIdle
    /\ \E x, y \in ObjectReferences \cup ObjectLabelSelectors :
            /\ ("Name" \in DOMAIN x) = ("Name" \in DOMAIN y)
            /\ keyArgs = <<x, y>>
    /\ keyOut = <<>>
    /\ relMap = <<>>

\* o.Key() on both ObjectReference values.
ObjectReferenceKeys ==
    /\ keyOut = <<>>
    /\ "Name" \in DOMAIN keyArgs[1]
    /\ keyOut' = <<ObjectReferenceKey(keyArgs[1]), ObjectReferenceKey(keyArgs[2])>>
    /\ UNCHANGED <<resolve, keyArgs, relMap>>

\* o.Key() on both ObjectLabelSelector values.
ObjectLabelSelectorKeys ==
    /\ keyOut = <<>>
    /\ "Selector" \in DOMAIN keyArgs[1]
    /\ keyOut' = <<ObjectLabelSelectorKey(keyArgs[1]), ObjectLabelSelectorKey(keyArgs[2])>>
    /\ UNCHANGED <<resolve, keyArgs, relMap>>

KeyNext ==
    \/ ObjectReferenceKeys
    \/ ObjectLabelSelectorKeys

KeySpec == KeyInit /\ [][KeyNext]_vars

\* The components the claim compares: the four strings of an ObjectReference,
\* or group, kind, namespace and the stringified selector.
KeyComponents(o) ==
    IF "Name" \in DOMAIN o
    THEN <<o.Group, o.Kind, o.Namespace, o.Name>>
    ELSE <<o.Group, o.Kind, o.Namespace, SelectorString(o.Selector)>>

\* C11 as claimed: the keys of two ObjectReference values, and of two
\* ObjectLabelSelector values, are equal if and only if their components are
\* pairwise equal, also for components that hold the backslash.
C11_KeysInjective ==
    keyOut # <<>> =>
        ((keyOut[1] = keyOut[2]) <=> (KeyComponents(keyArgs[1]) = KeyComponents(keyArgs[2])))

\* C12 as claimed: once the index build is over, the by-identifier index
\* entry of every identifier that input objects carry as UID is the Node of
\* the last of those objects, also when the name or hostname of a core-group
\* Node object equals the identifier.
C12_LastObjectWithUID ==
    pc \in {"owner", "extract", "traverse", "done"} =>
        \A u \in InputUIDs :
            MapGet(globalMapByUID, u) = LastOf({i \in DOMAIN objects : objects[i].UID = u})

\* ------------------------------------- the RelationshipMap operations alone

\* Largest number of add operations applied to one RelationshipMap.
MaxAdds == 3

\* The arguments of the add operations: reference keys, identifiers, selectors
\* (two of them with the same key) and relationship labels.
AddKeys == {KeyOf("", "Pod", "ns", "p"), KeyOf("apps", "Deployment", "ns", "d")}

AddUIDs == {"a", "b"}

AddSelectors ==
    {SelPods, SelReplicaSets,
     [Group |-> "a\\a", Kind |-> "a", Namespace |-> "ns", Selector |-> <<>>],
     [Group |-> "a", Kind |-> "a\\a", Namespace |-> "ns", Selector |-> <<>>]}

AddLabels == {"L", "M"}

\* A map fresh from newRelationshipMap, no operation applied yet.
AddInit ==
    /\ ResolveIdle
    /\ keyArgs = <<>>
    /\ keyOut = <<>>
    /\ relMap = [m |-> newRelationshipMap, calls |-> 0]

\* One call of the add operation op with an argument of args.
AddCall(op, args) ==
    /\ relMap.calls < MaxAdds
    /\ \E arg \in args, r \in AddLabels :
            relMap' = [m |-> ApplyAdd(relMap.m, Add(op, arg, r)), calls |-> relMap.calls + 1]
    /\ UNCHANGED <<resolve, keyArgs, keyOut>>

CallAddDependencyByKey == AddCall("AddDependencyByKey", AddKeys)

CallAddDependencyByLabelSelector == AddCall("AddDependencyByLabelSelector", AddSelectors)

CallAddDependencyByUID == AddCall("AddDependencyByUID", AddUIDs)

CallAddDependentByKey == AddCall("AddDependentByKey", AddKeys)

CallAddDependentByLabelSelector == AddCall("AddDependentByLabelSelector", AddSelectors)

CallAddDependentByUID == AddCall("AddDependentByUID", AddUIDs)

AddNext ==
    \/ CallAddDependencyByKey
    \/ CallAddDependencyByLabelSelector
    \/ CallAddDependencyByUID
    \/ CallAddDependentByKey
    \/ CallAddDependentByLabelSelector
    \/ CallAddDependentByUID

AddSpec == AddInit /\ [][AddNext]_vars

\* C13: after any sequence of add operations on a fresh map, every key of
\* DependenciesByLabelSelector and of DependentsByLabelSelector is a key of
\* ObjectLabelSelectors, mapped to a selector whose Key() is that key.
C13_SelectorsRegistered ==
    \A k \in DOMAIN relMap.m.DependenciesByLabelSelector
                \cup DOMAIN relMap.m.DependentsByLabelSelector :
        /\ k \in DOMAIN relMap.m.ObjectLabelSelectors
        /\ ObjectLabelSelectorKey(relMap.m.ObjectLabelSelectors[k]) = k

\* Selector additions in both directions, among them two selectors that share
\* a key, next to an addition by identifier or reference key.
C13_Witness ==
    /\ relMap.calls = MaxAdds
    /\ DOMAIN relMap.m.DependenciesByLabelSelector # {}
    /\ DOMAIN relMap.m.DependentsByLabelSelector # {}
    /\ DOMAIN relMap.m.DependenciesByLabelSelector # DOMAIN relMap.m.DependentsByLabelSelector
    /\ \E k \in DOMAIN relMap.m.ObjectLabelSelectors :
            relMap.m.ObjectLabelSelectors[k].Group = "a\\a"

\* C14: in a traversal iteration a queue head that is in the visited set is
\* removed and nothing else changes; a head that is not is marked visited,
\* which is the only way the visited set changes, and the visited set never
\* loses an identifier. So the Dependents of the Node of an identifier are
\* enqueued in at most one iteration, however often it was appended.
C14_VisitedOnce ==
    [][ /\ uidSet \subseteq uidSet'
        /\ (pc = "traverse" /\ Len(uidQueue) # 0) =>
                IF Head(uidQueue) \in uidSet
                THEN /\ uidQueue' = Tail(uidQueue)
                     /\ nodeMap' = nodeMap
                     /\ uidSet' = uidSet
                ELSE /\ uidSet' = uidSet \cup {Head(uidQueue)}
                     /\ LET node == MapGet(nodeMap, Head(uidQueue))
                            kept == Len(uidQueue) - 1
                        IN  IF node = Nil
                            THEN uidQueue' = uidQueue
                            ELSE /\ Len(uidQueue') = kept + Cardinality(DOMAIN nodes[node].Dependents)
                                 /\ SubSeq(uidQueue', 1, kept) = Tail(uidQueue)
                                 /\ {uidQueue'[i] : i \in kept + 1 .. Len(uidQueue')}
                                        = DOMAIN nodes[node].Dependents
      ]_vars

\* A visited identifier waits in the queue, several times over.
C14_Witness ==
    /\ pc = "traverse"
    /\ \E i, j \in DOMAIN uidQueue :
        /\ i # j
        /\ uidQueue[i] = uidQueue[j]
        /\ uidQueue[i] \in uidSet

\* C15: every step of the resolution pass, owner-reference pass and extractor
\* pass alike, keeps every Node and every (identifier, label) pair of its
\* Dependents, and every identifier that is a key of its Dependents.
C15_DependentsOnlyGrow ==
    [][(pc \in {"owner", "extract"}) =>
        \A y \in DOMAIN nodes :
            /\ y \in DOMAIN nodes'
            /\ DOMAIN nodes[y].Dependents \subseteq DOMAIN nodes'[y].Dependents
            /\ Pairs(nodes[y].Dependents) \subseteq Pairs(nodes'[y].Dependents)
      ]_vars

\* In the extractor pass a Node holds an edge made by an owner reference and
\* an edge, or a further label, made by a merged declaration.
C15_Witness ==
    /\ pc = "extract"
    /\ \E y \in DOMAIN nodes :
        /\ OwnerPairs(y) # {}
        /\ OwnerPairs(y) \subseteq Pairs(nodes[y].Dependents)
        /\ \E p \in ExtractorPairs(y) :
                p \notin OwnerPairs(y) /\ p \in Pairs(nodes[y].Dependents)

\* C16: from the end of the extractor pass until the return, no step changes
\* the by-identifier index, the by-reference index or any Node; the steps of
\* the traversal change the result map, the queue and the visited set only.
C16_TraversalReadOnly ==
    [][(pc = "traverse" \/ pc' = "traverse") =>
        /\ globalMapByUID' = globalMapByUID
        /\ globalMapByKey' = globalMapByKey
        /\ nodes' = nodes
        /\ UNCHANGED <<objects, ix, todo, rmap, err, merged>>
      ]_vars

\* Returned after a traversal that visited several identifiers of a graph
\* with edges.
C16_Witness ==
    /\ Done
    /\ Cardinality(uidSet) >= 2
    /\ Cardinality(DOMAIN nodeMap) >= 2
    /\ \E y \in DOMAIN nodes : nodes[y].Dependents # EmptyMap

\* Identifier u is an alias only: objects are indexed under it, none has it
\* as UID.
AliasOnly(u) ==
    /\ u \in DOMAIN globalMapByUID
    /\ \A m \in DOMAIN nodes : nodes[m].UID # u

\* C17: after resolution every key of every Node's Dependents is the UID of a
\* Node built from the input; a merged declaration by identifier whose
\* identifier is in the index resolves to an object filed under it, and when
\* the identifier is an alias only, that object is a core-group Node object
\* named by it and the edge is recorded under the UIDs of the two Nodes.
C17_AliasesNeverEdgeKeys ==
    AfterResolution =>
        /\ \A y \in DOMAIN nodes : \A u \in DOMAIN nodes[y].Dependents :
                \E m \in DOMAIN nodes : nodes[m].UID = u
        /\ \A e \in merged :
            \A d \in {d \in Declarations(e[2]) :
                        d.scheme = "uid" /\ d.key \in DOMAIN globalMapByUID} :
                LET t == globalMapByUID[d.key]
                IN  /\ d.key \in Identifiers(objects[t])
                    /\ AliasOnly(d.key) =>
                        /\ nodes[t].Group = "" /\ nodes[t].Kind = "Node"
                        /\ d.key \in {nodes[t].Name} \cup
                                (IF HostnameLabel \in DOMAIN nodes[t].Labels
                                 THEN {nodes[t].Labels[HostnameLabel]} ELSE {})
                        /\ IF d.dir = "dependency"
                           THEN d.r \in LabelsOf(t, nodes[e[1]].UID)
                           ELSE d.r \in LabelsOf(e[1], nodes[t].UID)

\* A dependency declaration and a dependent declaration by identifier were
\* merged whose identifiers are aliases only, and both edges are in place
\* under the UIDs of the Node objects.
C17_Witness ==
    /\ AfterResolution
    /\ \E e \in merged :
        \E d1, d2 \in {d \in Declarations(e[2]) : d.scheme = "uid" /\ AliasOnly(d.key)} :
            /\ d1.dir = "dependency"
            /\ d1.r \in LabelsOf(globalMapByUID[d1.key], nodes[e[1]].UID)
            /\ d2.dir = "dependent"
            /\ d2.r \in LabelsOf(e[1], nodes[globalMapByUID[d2.key]].UID)

\* C18 as claimed: at every iteration of the traversal loop every identifier
\* in the queue is a key of the result map mapped to a Node, and in the
\* returned NodeMap every entry whose key is not rootUID maps to a Node whose
\* UID is the key.
C18_QueueResolvedKeysAreUIDs ==
    /\ pc = "traverse" =>
            \A i \in DOMAIN uidQueue : MapGet(nodeMap, uidQueue[i]) # Nil
    /\ Done =>
            \A k \in DOMAIN nodeMap \ {rootUID} :
                nodeMap[k] # Nil /\ nodes[nodeMap[k]].UID = k

\* C19: an iteration of the extractor pass over a node whose extractor
\* succeeds merges the map that extractor returns for that node, and nothing
\* else; an iteration over a node whose extractor fails or whose kind has no
\* extractor merges nothing, whatever map an earlier iteration left in rmap.
\* So every merge made is of a node with the map of its own extractor.
C19_OwnMapOnly ==
    /\ [][(pc = "extract" /\ todo' # todo) =>
            LET x == MergedNode
            IN  IF ExtractorFor(nodes[x]) # "none" /\ Extract(nodes[x]).err = "nil"
                THEN /\ rmap' = Extract(nodes[x]).rmap
                     /\ merged' = merged \cup {<<x, rmap'[1]>>}
                     /\ \A y \in DOMAIN nodes :
                            Pairs(nodes'[y].Dependents) =
                                Pairs(nodes[y].Dependents)
                                    \cup DeclaredPairs(x, Extract(nodes[x]).rmap[1], y)
                ELSE nodes' = nodes /\ merged' = merged
         ]_vars
    /\ [](\A e \in merged : <<e[2]>> = Extract(nodes[e[1]]).rmap)

\* The pass is over; it merged a map, went over a node without extractor, and
\* the last extraction it made failed.
C19_Witness ==
    /\ pc = "extract"
    /\ todo = {}
    /\ merged # {}
    /\ UnmappedNodes # {}
    /\ FailedNodes # {}
    /\ err # "nil"

====
